---- MODULE Spec2Model ----
\* Base58 codec of Sources/CCrypto/base58.c: b58tobin, b58enc and the
\* wrappers base58_encode / base58_decode, as a state machine whose steps are
\* the loops of the C functions.
\*
\* Bytes and characters are naturals 0..255; a C string is the sequence of its
\* characters before the terminator.  C arrays are 0-based, sequences 1-based:
\* the C element a[k] is a[k+1] here.  A uint32_t chunk of the decoder is held
\* as its four bytes, most significant first, because the model checker's
\* integers are narrower than the 64-bit register t of the C code.
EXTENDS Integers, Sequences, FiniteSets, TLC

\* ------------------------------------------------------------------ bounds
MaxBin == 3          \* longest byte sequence handed to the encoder
MaxEncCap == 5       \* largest capacity *b58sz handed to b58enc
MaxValidLen == 7     \* longest alphabet-only string handed to the decoder
MaxMixedLen == 3     \* longest string with arbitrary characters
MaxDecCap == 5       \* largest destination capacity handed to the decoder

\* ------------------------------------------------------------ input samples
ByteVals == {0, 1, 57, 58, 255}
ValidChars == {49, 50, 122}                    \* '1' '2' 'z'
BadChars == {48, 79, 73, 108, 200}             \* '0' 'O' 'I' 'l' and a high-bit byte
MixedChars == {49, 122} \cup BadChars
FillBytes == {0, 170}                          \* content of a caller's buffer before a direct call
GarbageBytes == {0, 90}                        \* what lies outside the scratch buffer

SeqsUpTo(S, n) == UNION {[1..k -> S] : k \in 0..n}

\* ------------------------------------------------------------------ tables
b58digits_ordered ==
  << 49, 50, 51, 52, 53, 54, 55, 56, 57,
     65, 66, 67, 68, 69, 70, 71, 72,
     74, 75, 76, 77, 78,
     80, 81, 82, 83, 84, 85, 86, 87, 88, 89, 90,
     97, 98, 99, 100, 101, 102, 103, 104, 105, 106, 107,
     109, 110, 111, 112, 113, 114, 115, 116, 117, 118, 119, 120, 121, 122 >>

b58digits_map ==
  << -1, -1, -1, -1, -1, -1, -1, -1, -1, -1, -1, -1, -1, -1, -1, -1, -1, -1, -1,
     -1, -1, -1, -1, -1, -1, -1, -1, -1, -1, -1, -1, -1, -1, -1, -1, -1, -1, -1,
     -1, -1, -1, -1, -1, -1, -1, -1, -1, -1, -1, 0,  1,  2,  3,  4,  5,  6,  7,
     8,  -1, -1, -1, -1, -1, -1, -1, 9,  10, 11, 12, 13, 14, 15, 16, -1, 17, 18,
     19, 20, 21, -1, 22, 23, 24, 25, 26, 27, 28, 29, 30, 31, 32, -1, -1, -1, -1,
     -1, -1, 33, 34, 35, 36, 37, 38, 39, 40, 41, 42, 43, -1, 44, 45, 46, 47, 48,
     49, 50, 51, 52, 53, 54, 55, 56, 57, -1, -1, -1, -1, -1 >>

\* ------------------------------------------- reference arithmetic (claims)
\* A natural number as the sequence of its digits in some base, least
\* significant first, without high zero digits (the empty sequence is 0).
RECURSIVE RefMulAdd(_, _, _, _)
RefMulAdd(le, m, a, base) ==
  IF le = <<>>
  THEN IF a = 0 THEN <<>> ELSE <<a % base>> \o RefMulAdd(<<>>, m, a \div base, base)
  ELSE LET x == Head(le) * m + a
       IN <<x % base>> \o RefMulAdd(Tail(le), m, x \div base, base)

RECURSIVE RefHorner(_, _, _, _)
RefHorner(acc, digits, from, to) ==
  IF digits = <<>> THEN acc
  ELSE RefHorner(RefMulAdd(acc, from, Head(digits), to), Tail(digits), from, to)

Reverse(s) == [k \in 1..Len(s) |-> s[Len(s) + 1 - k]]

\* digits (most significant first) in base `from` -> digits in base `to`,
\* most significant first, no leading zero digit
RefConv(digits, from, to) == Reverse(RefHorner(<<>>, digits, from, to))

RECURSIVE LeadingCount(_, _)
LeadingCount(s, v) ==
  IF s # <<>> /\ Head(s) = v THEN 1 + LeadingCount(Tail(s), v) ELSE 0

Strip(s, v) == SubSeq(s, LeadingCount(s, v) + 1, Len(s))

IsAlphabetChar(ch) == \E k \in 1..58 : b58digits_ordered[k] = ch
DigitOf(ch) == (CHOOSE k \in 1..58 : b58digits_ordered[k] = ch) - 1

\* the Base58 text of a byte sequence, by definition
RefText(bytes) ==
  LET z == LeadingCount(bytes, 0)
      ds == RefConv(Strip(bytes, 0), 256, 58)
  IN [k \in 1..z |-> 49] \o [k \in 1..Len(ds) |-> b58digits_ordered[ds[k] + 1]]

\* the bytes denoted by the digits of an alphabet-only string, no leading zero
RefBytes(str) == RefConv([k \in 1..Len(str) |-> DigitOf(str[k])], 58, 256)

\* --------------------------------------------------------------- variables
VARIABLES
  pc,        \* position: idle, enc_loop, enc_done, dec_digits, dec_canon, dec_copy, dec_done
  chain,     \* which calls led here: none, enc, retry, dec, encdec, decenc
  data,      \* b58enc: the input bytes (data / bin, binsz = Len(data))
  cap0,      \* b58enc: *b58sz on entry
  b58sz,     \* b58enc: *b58sz
  zcount,    \* b58enc: zcount
  size,      \* b58enc: size
  buf,       \* b58enc: buf[size]
  ei,        \* b58enc: i
  high,      \* b58enc: high
  carry,     \* b58enc: carry when the inner loop last stopped
  encret,    \* b58enc: return value
  encres,    \* base58_encode: return value
  b58,       \* the text: output of b58enc, input of b58tobin
  wrapped,   \* b58tobin called through base58_decode (TRUE) or directly
  binsz,     \* b58tobin: binsz (the capacity; datalen of base58_decode)
  binszp,    \* b58tobin: *binszp (res of base58_decode)
  bin,       \* b58tobin: the destination buffer (d of base58_decode)
  bin0,      \* the destination buffer as it was when b58tobin was entered
  outi,      \* b58tobin: outi[outisz]
  zerocount, \* b58tobin: zerocount
  di,        \* b58tobin: i of the digit loop
  decret,    \* b58tobin: return value
  why,       \* b58tobin: the return statement taken
  out,       \* base58_decode: the caller's data after memcpy
  decres,    \* base58_decode: return value
  oob,       \* base58_decode copied from outside d
  origData,  \* the bytes first handed to the encoder
  origStr    \* the string first handed to the decoder

encVars == <<data, cap0, b58sz, zcount, size, buf, ei, high, carry, encret, encres>>
decVars == <<wrapped, binsz, binszp, bin, bin0, outi, zerocount, di, decret, why, out, decres, oob>>
vars == <<pc, chain, b58, origData, origStr, encVars, decVars>>

Init ==
  /\ pc = "idle" /\ chain = "none"
  /\ data = <<>> /\ cap0 = 0 /\ b58sz = 0 /\ zcount = 0 /\ size = 0 /\ buf = <<>>
  /\ ei = 0 /\ high = 0 /\ carry = 0 /\ encret = FALSE /\ encres = 0
  /\ b58 = <<>>
  /\ wrapped = FALSE /\ binsz = 0 /\ binszp = 0 /\ bin = <<>> /\ bin0 = <<>>
  /\ outi = <<>> /\ zerocount = 0 /\ di = 0 /\ decret = FALSE /\ why = "none"
  /\ out = <<>> /\ decres = 0 /\ oob = FALSE
  /\ origData = <<>> /\ origStr = <<>>

\* ----------------------------------------------------------------- encoder
\* size = (binsz - zcount) * 138 / 100 + 1
EncSize(n) == (n * 138) \div 100 + 1

\* EncInner that stops as soon as the carry is 0, whatever the high-water mark
RECURSIVE EncInner_NoHigh(_, _, _, _)
EncInner_NoHigh(b, c, j, h) ==
  IF c # 0
  THEN LET c1 == c + 256 * b[j + 1]
           b1 == [b EXCEPT ![j + 1] = c1 % 58]
           c2 == c1 \div 58
       IN IF j = 0 THEN [buf |-> b1, j |-> 0, carry |-> c2]
          ELSE EncInner_NoHigh(b1, c2, j - 1, h)
  ELSE [buf |-> b, j |-> j, carry |-> c]

\* the inner loop of b58enc for one input byte: from index j downwards while
\* (j > high) || carry, stopping through the break at index 0
RECURSIVE EncInner(_, _, _, _)
EncInner(b, c, j, h) ==
  IF (j > h) \/ c # 0
  THEN LET c1 == c + 256 * b[j + 1]
           b1 == [b EXCEPT ![j + 1] = c1 % 58]
           c2 == c1 \div 58
       IN IF j = 0 THEN [buf |-> b1, j |-> 0, carry |-> c2]
          ELSE EncInner(b1, c2, j - 1, h)
  ELSE [buf |-> b, j |-> j, carry |-> c]

\* entry of b58enc: count the leading zero bytes, size and clear the scratch
EncEnter(d, cap) ==
  LET z == LeadingCount(d, 0)
      sz == EncSize(Len(d) - z)
  IN /\ pc' = "enc_loop"
     /\ data' = d /\ cap0' = cap /\ b58sz' = cap
     /\ zcount' = z /\ size' = sz
     /\ buf' = [k \in 1..sz |-> 0]
     /\ ei' = z /\ high' = sz - 1 /\ carry' = 0
     /\ encret' = FALSE /\ encres' = 0

\* base58_encode(data, datalen, str, strsize) called by the user
Encode(d, cap) ==
  /\ pc = "idle"
  /\ EncEnter(d, cap)
  /\ chain' = "enc" /\ origData' = d
  /\ UNCHANGED <<b58, origStr, decVars>>

\* one round of the outer loop of b58enc
EncByte ==
  /\ pc = "enc_loop" /\ ei < Len(data)
  /\ LET r == EncInner(buf, data[ei + 1], size - 1, high)
     IN /\ buf' = r.buf /\ high' = r.j /\ carry' = r.carry
  /\ ei' = ei + 1
  /\ UNCHANGED <<pc, chain, b58, origData, origStr, data, cap0, b58sz, zcount, size,
                 encret, encres, decVars>>

\* FirstNonzero that does not skip the zero digits
FirstNonzero_NoSkip(b) == 0

\* index of the first nonzero entry of buf, or size
FirstNonzero(b) == LeadingCount(b, 0)

\* the capacity test without room for the terminator
EncTooSmall_Strict(c, len) == c < len

\* the capacity test of b58enc
EncTooSmall(c, len) == c <= len

\* after the outer loop: skip zero digits, test the capacity, write the text
EncFinish ==
  /\ pc = "enc_loop" /\ ei = Len(data)
  /\ LET j == FirstNonzero(buf)
         len == zcount + size - j
     IN IF EncTooSmall(b58sz, len)
        THEN /\ b58sz' = len + 1
             /\ encret' = FALSE /\ encres' = 0
             /\ b58' = b58
        ELSE /\ b58' = [k \in 1..zcount |-> 49]
                        \o [k \in 1..(size - j) |-> b58digits_ordered[buf[j + k] + 1]]
             /\ b58sz' = len + 1
             /\ encret' = TRUE /\ encres' = len + 1
  /\ pc' = "enc_done"
  /\ UNCHANGED <<chain, origData, origStr, data, cap0, zcount, size, buf, ei, high,
                 carry, decVars>>

\* the caller retries a failed encode with the capacity b58enc reported
EncRetry ==
  /\ pc = "enc_done" /\ chain = "enc" /\ ~encret
  /\ EncEnter(data, b58sz)
  /\ chain' = "retry"
  /\ UNCHANGED <<b58, origData, origStr, decVars>>

\* ----------------------------------------------------------------- decoder
\* a uint32_t as four bytes, most significant first
ZeroChunk == <<0, 0, 0, 0>>
b58_almostmaxint_mask == <<255, 255, 255, 255>>

\* x << (n * 8) in 32 bits
ShiftLeftBytes(x, n) == [k \in 1..4 |-> IF k + n <= 4 THEN x[k + n] ELSE 0]

RECURSIVE BitAnd(_, _)
BitAnd(a, b) ==
  IF a = 0 \/ b = 0 THEN 0
  ELSE (a % 2) * (b % 2) + 2 * BitAnd(a \div 2, b \div 2)

\* (x & m) != 0 for two uint32_t
ChunkAndNonzero(x, m) == \E k \in 1..4 : BitAnd(x[k], m[k]) # 0

\* outisz = (binsz + sizeof(b58_almostmaxint_t) - 1) / sizeof(b58_almostmaxint_t)
Outisz(n) == (n + 4 - 1) \div 4

\* bytesleft = binsz % sizeof(b58_almostmaxint_t)
Bytesleft(n) == n % 4

\* zeromask = bytesleft ? (b58_almostmaxint_mask << (bytesleft * 8)) : 0
Zeromask(n) ==
  IF Bytesleft(n) # 0 THEN ShiftLeftBytes(b58_almostmaxint_mask, Bytesleft(n))
  ELSE ZeroChunk

\* MulAdd32 that multiplies by 58 but drops the digit or carry c
MulAdd32_NoAdd(x, c) ==
  LET t4 == x[4] * 58
      t3 == x[3] * 58 + t4 \div 256
      t2 == x[2] * 58 + t3 \div 256
      t1 == x[1] * 58 + t2 \div 256
  IN [chunk |-> <<t1 % 256, t2 % 256, t3 % 256, t4 % 256>>, c |-> t1 \div 256]

\* t = ((b58_maxint_t)outi[j]) * 58 + c;  c = t >> 32;  outi[j] = t & mask
MulAdd32(x, c) ==
  LET t4 == x[4] * 58 + c
      t3 == x[3] * 58 + t4 \div 256
      t2 == x[2] * 58 + t3 \div 256
      t1 == x[1] * 58 + t2 \div 256
  IN [chunk |-> <<t1 % 256, t2 % 256, t3 % 256, t4 % 256>>, c |-> t1 \div 256]

\* for (j = outisz; j--;) over the chunks, least significant chunk first
RECURSIVE DecMulAdd(_, _, _)
DecMulAdd(o, c, j) ==
  IF j = 0 THEN [outi |-> o, c |-> c]
  ELSE LET r == MulAdd32(o[j], c)
       IN DecMulAdd([o EXCEPT ![j] = r.chunk], r.c, j - 1)

\* DecTooBig without the test of the partial chunk
DecTooBig_NoMask(c, o, n) == IF c # 0 THEN "carry" ELSE "ok"

\* the two tests after a digit has been accumulated
DecTooBig(c, o, n) ==
  IF c # 0 THEN "carry"
  ELSE IF ChunkAndNonzero(o[1], Zeromask(n)) THEN "zeromask"
  ELSE "ok"

\* DecBadChar without the lookup in b58digits_map
DecBadChar_NoMap(ch) ==
  IF BitAnd(ch, 128) # 0 THEN "highbit" ELSE "ok"

\* the test of a character before it is accumulated
DecBadChar(ch) ==
  IF BitAnd(ch, 128) # 0 THEN "highbit"
  ELSE IF b58digits_map[ch + 1] = -1 THEN "digit"
  ELSE "ok"

\* the bytes written to bin from outi
RECURSIVE ChunksToBytes(_)
ChunksToBytes(o) == IF o = <<>> THEN <<>> ELSE Head(o) \o ChunksToBytes(Tail(o))

\* DecBytes taking the high bytes of the partial chunk
DecBytes_HighBytes(o, n) ==
  IF Bytesleft(n) # 0
  THEN SubSeq(o[1], 1, Bytesleft(n)) \o ChunksToBytes(Tail(o))
  ELSE ChunksToBytes(o)

DecBytes(o, n) ==
  IF Bytesleft(n) # 0
  THEN SubSeq(o[1], 4 - Bytesleft(n) + 1, 4) \o ChunksToBytes(Tail(o))
  ELSE ChunksToBytes(o)

\* DecCount without the leading '1' added back to the count
DecCount_NoZeros(b, n, zc) ==
  LET lz == LeadingCount(b, 0)
  IN IF lz < n /\ zc > lz
     THEN [ok |-> FALSE, binszp |-> n - lz]
     ELSE [ok |-> TRUE, binszp |-> n - lz]

\* the canonical byte count: [ok, *binszp] after the last loop of b58tobin
DecCount(b, n, zc) ==
  LET lz == LeadingCount(b, 0)
  IN IF lz < n /\ zc > lz
     THEN [ok |-> FALSE, binszp |-> n - lz]
     ELSE [ok |-> TRUE, binszp |-> n - lz + zc]

\* a return false of b58tobin, and of base58_decode when it is the caller
DecFail(reason) ==
  /\ pc' = "dec_done" /\ decret' = FALSE /\ why' = reason
  /\ decres' = 0

\* entry of b58tobin (through base58_decode when w): the destination, the
\* capacity test, the cleared chunks and the count of leading '1'
DecEnter(str, cap, w, fill) ==
  /\ b58' = str /\ wrapped' = w
  /\ binsz' = cap /\ binszp' = cap
  /\ bin' = [k \in 1..cap |-> IF w THEN 0 ELSE fill]
  /\ bin0' = bin'
  /\ out' = <<>> /\ oob' = FALSE
  /\ IF cap = 0
     THEN /\ DecFail("capacity")
          /\ outi' = <<>> /\ zerocount' = 0 /\ di' = 0
     ELSE /\ outi' = [k \in 1..Outisz(cap) |-> ZeroChunk]
          /\ zerocount' = LeadingCount(str, 49)
          /\ di' = LeadingCount(str, 49)
          /\ pc' = "dec_digits" /\ decret' = FALSE /\ why' = "none" /\ decres' = 0

\* b58tobin called directly, or base58_decode, by the user
Decode(str, cap, w, fill) ==
  /\ pc = "idle"
  /\ DecEnter(str, cap, w, fill)
  /\ chain' = "dec" /\ origStr' = str
  /\ UNCHANGED <<origData, encVars>>

\* one round of the digit loop of b58tobin
DecDigit ==
  /\ pc = "dec_digits" /\ di < Len(b58)
  /\ LET ch == b58[di + 1]
     IN IF DecBadChar(ch) # "ok"
        THEN /\ DecFail(DecBadChar(ch))
             /\ UNCHANGED <<outi, di>>
        ELSE LET r == DecMulAdd(outi, b58digits_map[ch + 1], Outisz(binsz))
             IN /\ outi' = r.outi
                /\ IF DecTooBig(r.c, r.outi, binsz) # "ok"
                   THEN DecFail(DecTooBig(r.c, r.outi, binsz)) /\ di' = di
                   ELSE di' = di + 1 /\ UNCHANGED <<pc, decret, why, decres>>
  /\ UNCHANGED <<chain, b58, origData, origStr, encVars, wrapped, binsz, binszp, bin,
                 bin0, zerocount, out, oob>>

\* the digits are exhausted: the chunks are written to bin
DecSerialize ==
  /\ pc = "dec_digits" /\ di = Len(b58)
  /\ bin' = DecBytes(outi, binsz)
  /\ pc' = "dec_canon"
  /\ UNCHANGED <<chain, b58, origData, origStr, encVars, wrapped, binsz, binszp, bin0,
                 outi, zerocount, di, decret, why, out, decres, oob>>

\* the canonical byte count and the return of b58tobin
DecCanon ==
  /\ pc = "dec_canon"
  /\ LET r == DecCount(bin, binsz, zerocount)
     IN /\ binszp' = r.binszp
        /\ IF r.ok
           THEN /\ decret' = TRUE /\ why' = "ok"
                /\ pc' = IF wrapped THEN "dec_copy" ELSE "dec_done"
                /\ decres' = decres
           ELSE DecFail("zeroprefix")
  /\ UNCHANGED <<chain, b58, origData, origStr, encVars, wrapped, binsz, bin, bin0,
                 outi, zerocount, di, out, oob>>

\* base58_decode after a successful b58tobin: nd = d + datalen - res and
\* memcpy(data, nd, res); with res > datalen the copy starts before d
DecCopy ==
  /\ pc = "dec_copy"
  /\ IF binszp <= binsz
     THEN /\ out' = SubSeq(bin, binsz - binszp + 1, binsz)
          /\ oob' = FALSE
     ELSE /\ \E g \in GarbageBytes : out' = [k \in 1..(binszp - binsz) |-> g] \o bin
          /\ oob' = TRUE
  /\ decres' = binszp
  /\ pc' = "dec_done"
  /\ UNCHANGED <<chain, b58, origData, origStr, encVars, wrapped, binsz, binszp, bin,
                 bin0, outi, zerocount, di, decret, why>>

\* ------------------------------------------------------------- round trips
\* the text of a successful encode is handed to base58_decode
DecodeEncoded(cap) ==
  /\ pc = "enc_done" /\ chain = "enc" /\ encret
  /\ DecEnter(b58, cap, TRUE, 0)
  /\ chain' = "encdec"
  /\ UNCHANGED <<origData, origStr, encVars>>

\* where a caller finds the decoded bytes: data after base58_decode, the end
\* of bin after a direct b58tobin
Decoded == IF wrapped THEN out ELSE SubSeq(bin, binsz - binszp + 1, binsz)

\* the bytes of a successful decode are handed to base58_encode with a
\* buffer that is large enough
EncodeDecoded ==
  /\ pc = "dec_done" /\ chain = "dec" /\ decret /\ binszp <= binsz
  /\ EncEnter(Decoded, 2 * Len(Decoded) + 2)
  /\ chain' = "decenc"
  /\ UNCHANGED <<b58, origData, origStr, decVars>>

DecInputs == SeqsUpTo(ValidChars, MaxValidLen) \cup SeqsUpTo(MixedChars, MaxMixedLen)

\* ------------------------------------------------------------------ claims
AlphabetOnly(str) == \A k \in 1..Len(str) : IsAlphabetChar(str[k])
Max(a, b) == IF a >= b THEN a ELSE b

\* C1 as stated: the text of any byte sequence b, decoded into a destination
\* of capacity at least len(b), decodes successfully to exactly b.
C1_AsStated ==
  (pc = "dec_done" /\ chain = "encdec" /\ binsz >= Len(origData))
    => (decret /\ out = origData /\ decres = Len(origData))

\* C1 amended: the text of any byte sequence b, decoded into a destination of
\* capacity at least max(1, len(b)), decodes successfully to exactly b.
C1_RoundTripBytes ==
  (pc = "dec_done" /\ chain = "encdec" /\ binsz >= Max(1, Len(origData)))
    => (decret /\ ~oob /\ out = origData /\ decres = Len(origData))

C1_Witness ==
  /\ pc = "dec_done" /\ chain = "encdec" /\ decret
  /\ origData = <<0, 255, 58>> /\ binsz = 4 /\ out = origData

\* C2: an alphabet-only string s decodes successfully into any capacity
\* >= max(1, len(s)), and the decoded bytes encode back to exactly s.
C2_RoundTripText ==
  (AlphabetOnly(origStr) /\ binsz >= Max(1, Len(origStr)))
    => /\ (pc = "dec_done" /\ chain = "dec") => (decret /\ binszp <= binsz)
       /\ (pc = "enc_done" /\ chain = "decenc") => (encret /\ b58 = origStr)

C2_Witness ==
  /\ pc = "enc_done" /\ chain = "decenc" /\ encret
  /\ origStr = <<49, 49, 122, 49, 50>> /\ b58 = origStr

\* C3: whenever b58tobin returns success the length it reports in *binszp is
\* at most the capacity it was given.
C3_LengthWithinCapacity ==
  (pc \in {"dec_copy", "dec_done"} /\ decret) => binszp <= binsz

\* C4: b58enc fails exactly when the capacity is <= L, the length of the
\* Base58 text of the input; on failure it reports L + 1; the retry with the
\* reported capacity succeeds.
C4_Negotiation ==
  pc = "enc_done" =>
    LET L == Len(RefText(data))
    IN /\ encret <=> (cap0 > L)
       /\ ~encret => (b58sz = L + 1 /\ encres = 0)
       /\ encret => (Len(b58) = L /\ b58sz = L + 1)
       /\ chain = "retry" => (encret /\ cap0 = L + 1)

C4_Witness ==
  pc = "enc_done" /\ chain = "retry" /\ encret /\ Len(data) = 3 /\ cap0 = 6

\* C5: with a capacity >= 1, a string containing a character outside the
\* alphabet never decodes: b58tobin returns false and base58_decode returns 0.
C5_InvalidRejected ==
  (chain = "dec" /\ binsz >= 1 /\ ~AlphabetOnly(origStr))
    => /\ pc \notin {"dec_canon", "dec_copy"}
       /\ pc = "dec_done" => (~decret /\ decres = 0)

C5_Witness ==
  /\ pc = "dec_done" /\ chain = "dec" /\ ~decret /\ why = "digit"
  /\ origStr = <<49, 122, 108>> /\ binsz = 5

\* C6: N zero bytes followed by data starting with a nonzero byte encode to a
\* text with exactly N leading '1', and that text decodes (capacity at least
\* the length) to exactly N zero bytes followed by the data.
C6_LeadingZeros ==
  LET N == LeadingCount(origData, 0)
  IN (chain \in {"enc", "encdec"} /\ N < Len(origData))
       => /\ (pc = "enc_done" /\ encret)
               => (LeadingCount(b58, 49) = N /\ Len(b58) > N)
          /\ (pc = "dec_done" /\ chain = "encdec" /\ binsz >= Len(origData))
               => /\ decret
                  /\ LeadingCount(out, 0) = N
                  /\ Strip(out, 0) = Strip(origData, 0)

C6_Witness ==
  /\ pc = "dec_done" /\ chain = "encdec" /\ decret
  /\ origData = <<0, 0, 57>> /\ b58 = <<49, 49, 122>> /\ out = origData

\* C7 as stated: whenever b58tobin returns failure, the destination buffer
\* holds what it held before the call.
C7_AsStated ==
  (pc = "dec_done" /\ ~decret) => bin = bin0

\* C7 amended: when b58tobin fails for a zero capacity, an invalid character
\* or a value too large for the capacity, the destination buffer holds what it
\* held before the call; when it fails for the leading-'1' count, the buffer
\* has been overwritten with the bytes of the decoded value; in every case
\* base58_decode copies nothing to its caller and returns 0.
C7_NoOutputOnEarlyFailure ==
  (pc = "dec_done" /\ ~decret)
    => /\ why # "zeroprefix" => bin = bin0
       /\ why = "zeroprefix"
            => (Len(bin) = binsz /\ Strip(bin, 0) = RefBytes(Strip(b58, 49)))
       /\ out = <<>> /\ decres = 0

C7_Witness ==
  /\ pc = "dec_done" /\ ~decret /\ ~wrapped /\ why = "zeromask"
  /\ di >= 1 /\ binsz = 2 /\ bin = <<170, 170>>

\* C8: an alphabet-only string without leading '1', denoting V, decodes into
\* capacity n >= 1 if and only if V < 256^n (V has at most n bytes).
C8_ExactWidth ==
  (pc = "dec_done" /\ chain = "dec" /\ binsz >= 1 /\ AlphabetOnly(origStr)
     /\ LeadingCount(origStr, 49) = 0)
    => (decret <=> Len(RefBytes(origStr)) <= binsz)

C8_Witness ==
  /\ pc = "dec_done" /\ chain = "dec" /\ ~decret /\ why = "carry"
  /\ binsz = 4 /\ Len(origStr) = 6 /\ LeadingCount(origStr, 49) = 0

\* C9: between the rounds of the outer loop of b58enc the scratch buffer, read
\* as a base-58 number, equals the input bytes processed so far; its entries
\* are in 0..57, the carry is 0, and while bytes remain every entry at or
\* above the high-water mark is 0.
C9_ScratchInvariant ==
  pc = "enc_loop" =>
    /\ \A k \in 1..size : buf[k] \in 0..57
    /\ carry = 0
    /\ RefConv(buf, 58, 256) = SubSeq(data, zcount + 1, ei)
    /\ ei < Len(data) => \A k \in 1..(high + 1) : buf[k] = 0

C9_Witness ==
  /\ pc = "enc_loop" /\ ei = Len(data) /\ Len(data) - zcount = 3
  /\ high = 0 /\ buf[1] # 0

\* C10: base58_decode returns 0 if and only if the decode failed.
C10_ZeroMeansFailure ==
  (pc = "dec_done" /\ wrapped) => (decres = 0 <=> ~decret)

Next ==
  \/ pc = "idle" /\ \E d \in SeqsUpTo(ByteVals, MaxBin), cap \in 0..MaxEncCap : Encode(d, cap)
  \/ EncByte
  \/ EncFinish
  \/ EncRetry
  \/ pc = "idle" /\ \E str \in DecInputs, cap \in 0..MaxDecCap :
                      \/ Decode(str, cap, TRUE, 0)
                      \/ \E fill \in FillBytes : Decode(str, cap, FALSE, fill)
  \/ DecDigit
  \/ DecSerialize
  \/ DecCanon
  \/ DecCopy
  \/ pc = "enc_done" /\ \E cap \in 0..MaxDecCap : DecodeEncoded(cap)
  \/ EncodeDecoded

Spec == Init /\ [][Next]_vars
====
